---- MODULE Spec2Model ----
(***************************************************************************)
(* Model of the ChatQWen chat-completion client                            *)
(* (bisheng_langchain/chat_models/qwen.py): the message <-> wire           *)
(* converter, the tenacity retry wrapper, the raw-HTTP and DashScope-SDK   *)
(* synchronous generation paths and the classification of the response.    *)
(*                                                                         *)
(* Python values are modelled as follows.  A dict is a function whose      *)
(* DOMAIN is its key set.  None is the string NoneVal.  A raised           *)
(* exception is a record [kind, text].  The message classes of             *)
(* langchain_core are plain containers (no validation of their fields).    *)
(* The names tenacity exports (retry_if_exception_type,                    *)
(* stop_after_attempt, wait_exponential) are taken with tenacity's         *)
(* semantics.                                                              *)
(*                                                                         *)
(* Spec is one client instance serving generate calls one after another;   *)
(* ConvSpec applies the two converters to every message and wire object.   *)
(***************************************************************************)
EXTENDS Integers, Sequences, FiniteSets, TLC

VARIABLES
    \* ---- instance configuration (fields of ChatQWen, fixed by __init__)
    use_dashscope_sdk, max_retries, model_name, model_kwargs, streaming,
    tiktoken_model_name, request_timeout,
    \* ---- the shared transport client (self.client.headers; no client in SDK mode)
    headers,
    \* ---- one logical generate call
    pc,              \* "Idle" | "Requesting" | "Sleeping" | "Succeeded" | "Failed"
    messages,        \* the caller's conversation (sequence of messages)
    message_dicts,   \* the wire messages built by _create_message_dicts
    attempt_number,  \* tenacity's retry_state.attempt_number
    invocations,     \* number of transport invocations (client.post / Generation.call)
    sleeps,          \* the delays slept so far, in order
    sent,            \* the request bodies handed to the transport, in order
    failures,        \* number of transport invocations that raised
    last_outcome,    \* what the latest transport invocation did
    remote,          \* what the service will do with the next transport invocation
                     \* of the call under way (NoOutcome outside a call)
    error,           \* the exception the caller receives (NoError while none)
    result,          \* <<>> or <<ChatResult>>
    \* ---- converter exercised on its own
    c_pc,            \* "off" | "msg" | "wire" | "back" | "dict" | "parsed"
    c_msg, c_wire, c_back,
    \* ---- one streaming call (pc: "Idle" | "Streaming" | "Completed" | "Failed")
    run_manager,     \* whether the caller passed a run_manager (token consumer)
    received,        \* the chunks read from the stream so far, in order
    inner_completion,\* the content buffer
    cur_role,        \* the loop variable `role`
    tool_calls,      \* the loop variable `tool_calls` (<<>> stands for None)
    emitted,         \* the tokens handed to run_manager.on_llm_new_token, in order
    \* ---- the token accountant
    t_pc,            \* "off" | "ready" | "ids" | "count"
    t_text,          \* the text handed to get_token_ids
    t_out,           \* what the operation returned or raised
    warnings,        \* number of warnings logged
    \* ---- the world around the instance
    answers,         \* whether the service answers a request at all
    dashscope_api_key, \* the module attribute dashscope.api_key (None while unset)
    instances,       \* further ChatQWen instances of the process, by name
    \* ---- the request builder exercised on its own
    b_pc,            \* "off" | "ready" | "built"
    b_kwargs,        \* the keyword arguments handed to _build_input_parameters
    b_out            \* what it returned or raised

cfgvars  == <<use_dashscope_sdk, max_retries, model_name, model_kwargs, streaming,
              tiktoken_model_name, request_timeout>>
callvars == <<pc, messages, message_dicts, attempt_number, invocations, failures,
              sleeps, sent, last_outcome, remote, error, result>>
convvars == <<c_pc, c_msg, c_wire, c_back>>
streamvars == <<run_manager, received, inner_completion, cur_role, tool_calls, emitted>>
tokvars  == <<t_pc, t_text, t_out, warnings>>
sidevars == <<answers, dashscope_api_key, instances, b_pc, b_kwargs, b_out>>
vars     == <<cfgvars, headers, callvars, convvars, streamvars, tokvars, sidevars>>

----------------------------------------------------------------------------
(* Python values *)

NoneVal == "<None>"

EmptyDict == [k \in {} |-> NoneVal]

Merge(f, g) == [k \in (DOMAIN f) \cup (DOMAIN g) |-> IF k \in DOMAIN g THEN g[k] ELSE f[k]]

Without(f, keys) == [k \in (DOMAIN f) \ keys |-> f[k]]

NoError == [kind |-> "None", text |-> ""]

Raise(kind, text) == [kind |-> kind, text |-> text]

----------------------------------------------------------------------------
(* Messages (langchain_core.messages) and wire dicts *)

\* function_call and tool_calls payloads carried in additional_kwargs
FunctionCallVal == [name |-> "lookup", arguments |-> "{}"]
ToolCallsVal    == << [id |-> "call_1", name |-> "lookup", arguments |-> "{}"] >>
NameVal         == "alice"

KwargsOf(keys) ==
    [k \in keys |-> CASE k = "function_call" -> FunctionCallVal
                      [] k = "tool_calls"    -> ToolCallsVal
                      [] OTHER               -> NameVal]

KwargKeySets == SUBSET {"function_call", "tool_calls", "name"}

Msg(type, content, role, name, tool_call_id, kw) ==
    [type |-> type, content |-> content, role |-> role, name |-> name,
     tool_call_id |-> tool_call_id, additional_kwargs |-> kw]

HumanMessage(content, kw)    == Msg("human", content, NoneVal, NoneVal, NoneVal, kw)
AIMessage(content, kw)       == Msg("ai", content, NoneVal, NoneVal, NoneVal, kw)
SystemMessage(content, kw)   == Msg("system", content, NoneVal, NoneVal, NoneVal, kw)
FunctionMessage(content, name, kw) == Msg("function", content, NoneVal, name, NoneVal, kw)
ToolMessage(content, id, kw) == Msg("tool", content, NoneVal, NoneVal, id, kw)
ChatMessage(content, role, kw) == Msg("chat", content, role, NoneVal, NoneVal, kw)
\* some other BaseMessage subclass, none of the six kinds the converter knows
OtherMessage(content, kw)    == Msg("base", content, NoneVal, NoneVal, NoneVal, kw)

Contents  == {"", "hi"}
ChatRoles == {"user", "assistant", "system", "function", "tool", "critic"}

Messages ==
    UNION { {HumanMessage(c, KwargsOf(ks)), AIMessage(c, KwargsOf(ks)),
             SystemMessage(c, KwargsOf(ks)), ToolMessage(c, "call_1", KwargsOf(ks)),
             FunctionMessage(c, "lookup", KwargsOf(ks)),
             FunctionMessage(c, NoneVal, KwargsOf(ks)),
             OtherMessage(c, KwargsOf(ks))}
            \cup {ChatMessage(c, r, KwargsOf(ks)) : r \in ChatRoles}
          : <<c, ks>> \in Contents \X KwargKeySets }

\* the outcome of a conversion: a value, or the exception it raised
Ok(v)       == [ok |-> TRUE, val |-> v, err |-> NoError]
Fails(e, v) == [ok |-> FALSE, val |-> v, err |-> e]

----------------------------------------------------------------------------
(* The wire converter *)

\* mutant: the assistant branch forgets to copy function_call
AssistantCallFields_Mut(kw) ==
    IF "tool_calls" \in DOMAIN kw THEN ("tool_calls" :> kw["tool_calls"]) ELSE EmptyDict

\* the function_call / tool_calls an AIMessage carries onto the wire
AssistantCallFields(kw) ==
    Merge(IF "function_call" \in DOMAIN kw
          THEN ("function_call" :> kw["function_call"]) ELSE EmptyDict,
          IF "tool_calls" \in DOMAIN kw
          THEN ("tool_calls" :> kw["tool_calls"]) ELSE EmptyDict)

\* the role-specific part of _convert_message_to_dict (the if/elif chain)
MessageDictOfKind(message) ==
    LET kw == message.additional_kwargs IN
    CASE message.type = "chat" ->
           ("role" :> message.role) @@ ("content" :> message.content)
      [] message.type = "human" ->
           ("role" :> "user") @@ ("content" :> message.content)
      [] message.type = "ai" ->
           Merge(("role" :> "assistant") @@ ("content" :> message.content),
                 AssistantCallFields(kw))
      [] message.type = "system" ->
           ("role" :> "system") @@ ("content" :> message.content)
      [] message.type = "function" ->
           ("role" :> "function") @@ ("content" :> message.content)
             @@ ("name" :> message.name)
      [] message.type = "tool" ->
           ("role" :> "tool") @@ ("content" :> message.content)
             @@ ("tool_call_id" :> message.tool_call_id)
      [] OTHER -> EmptyDict

KnownKinds == {"chat", "human", "ai", "system", "function", "tool"}

\* toWire
_convert_message_to_dict(message) ==
    IF message.type \notin KnownKinds
    THEN Fails(Raise("ValueError", "Got unknown type"), EmptyDict)
    ELSE LET kw == message.additional_kwargs
             message_dict == MessageDictOfKind(message)
         IN Ok(IF "name" \in DOMAIN kw
               THEN Merge(message_dict, "name" :> kw["name"])
               ELSE message_dict)

NoKwargs == KwargsOf({})

\* mutant: the assistant branch forgets to copy tool_calls
AssistantKwargs_Mut(_dict) ==
    IF "function_call" \in DOMAIN _dict
    THEN ("function_call" :> _dict["function_call"]) ELSE EmptyDict

\* the additional_kwargs _convert_dict_to_message builds for an assistant dict
AssistantKwargs(_dict) ==
    Merge(IF "function_call" \in DOMAIN _dict
          THEN ("function_call" :> _dict["function_call"]) ELSE EmptyDict,
          IF "tool_calls" \in DOMAIN _dict
          THEN ("tool_calls" :> _dict["tool_calls"]) ELSE EmptyDict)

\* fromWire; a subscript of a missing key raises KeyError
_convert_dict_to_message(_dict) ==
    LET Missing(key) == Fails(Raise("KeyError", key), NoneVal) IN
    IF "role" \notin DOMAIN _dict THEN Missing("role")
    ELSE IF "content" \notin DOMAIN _dict THEN Missing("content")
    ELSE LET role == _dict["role"]
             content == _dict["content"]
         IN CASE role = "user" -> Ok(HumanMessage(content, NoKwargs))
              [] role = "assistant" ->
                   Ok(AIMessage(IF content = NoneVal THEN "" ELSE content,
                                AssistantKwargs(_dict)))
              [] role = "system" -> Ok(SystemMessage(content, NoKwargs))
              [] role = "function" ->
                   IF "name" \notin DOMAIN _dict THEN Missing("name")
                   ELSE Ok(FunctionMessage(content, _dict["name"], NoKwargs))
              [] role = "tool" ->
                   IF "tool_call_id" \notin DOMAIN _dict THEN Missing("tool_call_id")
                   ELSE Ok(ToolMessage(content, _dict["tool_call_id"], NoKwargs))
              [] OTHER -> Ok(ChatMessage(content, role, NoKwargs))

\* wire objects handed to fromWire directly (candidates of a response)
WireOptionalKeys == {"name", "function_call", "tool_calls", "tool_call_id"}

WireExtras(keys) ==
    [k \in keys |-> CASE k = "function_call" -> FunctionCallVal
                      [] k = "tool_calls"    -> ToolCallsVal
                      [] k = "tool_call_id"  -> "call_1"
                      [] OTHER               -> "lookup"]

WireDicts ==
    UNION { { Merge(("role" :> r) @@ ("content" :> c), WireExtras(ks)) : c \in Contents }
            \cup (IF r = "assistant"
                  THEN { Merge(("role" :> r) @@ ("content" :> NoneVal), WireExtras(ks)) }
                  ELSE {})
          : <<r, ks>> \in ChatRoles \X (SUBSET WireOptionalKeys) }

----------------------------------------------------------------------------
(* The converter exercised on its own: ToWire applies toWire to a message, *)
(* FromWire applies fromWire to a wire dict (the one ToWire produced, or a *)
(* wire object received from the service).                                 *)

Pending == [ok |-> FALSE, val |-> NoneVal, err |-> NoError]

ToWire ==
    /\ c_pc = "msg"
    /\ c_wire' = _convert_message_to_dict(c_msg)
    /\ c_pc' = "wire"
    /\ UNCHANGED <<c_msg, c_back, cfgvars, headers, callvars, streamvars, tokvars, sidevars>>

FromWire ==
    /\ c_pc \in {"wire", "dict"}
    /\ c_wire.ok
    /\ c_back' = _convert_dict_to_message(c_wire.val)
    /\ c_pc' = IF c_pc = "wire" THEN "back" ELSE "parsed"
    /\ UNCHANGED <<c_msg, c_wire, cfgvars, headers, callvars, streamvars, tokvars, sidevars>>

----------------------------------------------------------------------------
(* Bounds of the model *)

MaxRetriesBound == 7      \* max_retries ranges over 0..MaxRetriesBound
MaxConv == 2              \* longest conversation handed to generate

----------------------------------------------------------------------------
(* Configuration and request parameters *)

ModelNames == {"qwen-turbo", "bailian-v1"}

\* str.startswith on the model names of the model
StartsWith(model, prefix) ==
    \/ prefix = "qwen" /\ model = "qwen-turbo"
    \/ prefix = "bailian" /\ model = "bailian-v1"
    \/ prefix = "chatglm" /\ model \in {"chatglm-std", "chatglm-lite"}

ModelKwargsPool ==
    { EmptyDict, ("enable_search" :> "True"), ("customized_model_id" :> "cm-1") }

_default_params ==
    Merge([temperature |-> "0.95", top_p |-> "0.8", top_k |-> NoneVal,
           max_tokens |-> "1024", seed |-> "1234", result_format |-> "message",
           repetition_penalty |-> "1.1"],
          model_kwargs)

_client_params == _default_params

Truthy(v) == v \notin {NoneVal, "False", ""}

\* dict.get(key, default)
Get(d, key, default) == IF key \in DOMAIN d THEN d[key] ELSE default

\* the conversations a caller may hand to generate
ConvPool ==
    { HumanMessage("hi", NoKwargs),
      AIMessage("", KwargsOf({"tool_calls"})),
      FunctionMessage("hi", NoneVal, NoKwargs),
      OtherMessage("hi", NoKwargs) }

RECURSIVE SeqsUpTo(_, _)
SeqsUpTo(S, n) ==
    IF n = 0 THEN {<<>>}
    ELSE LET shorter == SeqsUpTo(S, n - 1)
         IN shorter \cup {Append(q, x) : <<q, x>> \in shorter \X S}

Conversations == SeqsUpTo(ConvPool, MaxConv)

\* mutant: the wire messages are collected in reverse order
RECURSIVE ConvertAll_Mut(_)
ConvertAll_Mut(msgs) ==
    IF msgs = <<>> THEN Ok(<<>>)
    ELSE LET head == _convert_message_to_dict(Head(msgs)) IN
         IF ~head.ok THEN Fails(head.err, <<>>)
         ELSE LET rest == ConvertAll_Mut(Tail(msgs)) IN
              IF ~rest.ok THEN rest ELSE Ok(rest.val \o <<head.val>>)

\* message_dicts = [_convert_message_to_dict(m) for m in messages]: the first
\* conversion that raises ends the comprehension
RECURSIVE ConvertAll(_)
ConvertAll(msgs) ==
    IF msgs = <<>> THEN Ok(<<>>)
    ELSE LET head == _convert_message_to_dict(Head(msgs)) IN
         IF ~head.ok THEN Fails(head.err, <<>>)
         ELSE LET rest == ConvertAll(Tail(msgs)) IN
              IF ~rest.ok THEN rest ELSE Ok(<<head.val>> \o rest.val)

\* _create_message_dicts(messages, stop = None): (message_dicts, params)
_create_message_dicts(msgs) ==
    LET converted == ConvertAll(msgs) IN
    IF ~converted.ok THEN converted
    ELSE Ok([message_dicts |-> converted.val, params |-> _client_params])

\* _build_input_parameters(model, messages, **kwargs): (input, parameters)
_build_input_parameters(model, msgs, kwargs) ==
    LET input0 == ("messages" :> msgs)
        tail(input, parameters, kw) ==
            LET parameters2 ==
                    IF "incremental_output" \notin DOMAIN kw /\ Truthy(Get(kw, "stream", NoneVal))
                    THEN Merge(parameters, ("incremental_output" :> "True"))
                    ELSE parameters
            IN Ok([input |-> input, parameters |-> Merge(parameters2, kw)])
    IN
    IF StartsWith(model, "qwen")
    THEN LET enable_search == Get(kwargs, "enable_search", "False") IN
         tail(input0,
              IF Truthy(enable_search) THEN ("enable_search" :> enable_search) ELSE EmptyDict,
              Without(kwargs, {"enable_search"}))
    ELSE IF StartsWith(model, "bailian")
    THEN LET customized_model_id == Get(kwargs, "customized_model_id", NoneVal) IN
         IF customized_model_id = NoneVal
         THEN Fails(Raise("ValueError", "customized_model_id is required"), NoneVal)
         ELSE tail(Merge(input0, ("customized_model_id" :> customized_model_id)),
                   EmptyDict, Without(kwargs, {"customized_model_id"}))
    ELSE tail(input0, EmptyDict, kwargs)

----------------------------------------------------------------------------
(* The retry engine: tenacity's retry(reraise=True, stop=stop_after_attempt, *)
(* wait=wait_exponential(multiplier=1, min, max)) of _create_retry_decorator *)

min_seconds == 1
max_seconds == 20
multiplier  == 1

Min(a, b) == IF a <= b THEN a ELSE b
Max(a, b) == IF a >= b THEN a ELSE b

RECURSIVE Pow(_, _)
Pow(b, e) == IF e <= 0 THEN 1 ELSE b * Pow(b, e - 1)

\* mutant: one attempt too many
stop_after_attempt_Mut(attempt) == attempt > max_retries

\* stop_after_attempt(llm.max_retries): consulted after an attempt has raised
stop_after_attempt(attempt) == attempt >= max_retries

\* mutant: the exponent is the attempt number (the first delay is 2)
wait_exponential_Mut(attempt) ==
    Max(Max(0, min_seconds), Min(multiplier * Pow(2, attempt), max_seconds))

\* wait_exponential: the delay slept after attempt number `attempt` has raised
wait_exponential(attempt) ==
    Max(Max(0, min_seconds), Min(multiplier * Pow(2, attempt - 1), max_seconds))

----------------------------------------------------------------------------
(* The remote service: what one transport invocation can do *)

Usage(i, o) == [input_tokens |-> i, output_tokens |-> o, total_tokens |-> i + o]

\* rsp_dict.get('usage', '') of a response without usage
NoUsage == [k \in {} |-> 0]

Choice(m) == [finish_reason |-> "stop", message |-> m]

WireAssistant(c) == ("role" :> "assistant") @@ ("content" :> c)

Candidates ==
    { << WireAssistant("hello") >>,
      << Merge(WireAssistant(NoneVal), ("tool_calls" :> ToolCallsVal)),
         ("role" :> "user") @@ ("content" :> "hi") >>,
      << WireAssistant("hello"), ("role" :> "function") @@ ("content" :> "hi") >> }

REJECTED == "DataInspectionFailed"

\* JSON bodies: success envelopes, failure envelopes (with and without a
\* message), the content-inspection rejection
Responses ==
    { ("output" :> [choices |-> [i \in DOMAIN cs |-> Choice(cs[i])]])
        @@ ("usage" :> Usage(5, 3)) : cs \in Candidates }
    \cup { ("output" :> [choices |-> << Choice(WireAssistant("hello")) >>]) }
    \cup { ("code" :> "Throttling") @@ ("message" :> "busy"),
           ("code" :> "InvalidApiKey"),
           ("code" :> REJECTED) @@ ("message" :> "blocked"),
           ("code" :> REJECTED) @@ ("message" :> "") }

TransportErrors == { Raise("ConnectionError", "reset"), Raise("Timeout", "timed out") }

Raised(e)   == [raises |-> TRUE, error |-> e, json |-> EmptyDict]
Returned(r) == [raises |-> FALSE, error |-> NoError, json |-> r]

TransportOutcomes == {Raised(e) : e \in TransportErrors} \cup {Returned(r) : r \in Responses}

NoOutcome == [raises |-> FALSE, error |-> NoError, json |-> EmptyDict]

----------------------------------------------------------------------------
(* Classification of the raw response and the result *)

ChatGeneration(message) == [message |-> message, generation_info |-> NoneVal]

ChatResult(generations, usage) ==
    [generations |-> generations,
     llm_output |-> [token_usage |-> usage, model_name |-> model_name]]

RECURSIVE ConvertChoices(_)
ConvertChoices(choices) ==
    IF choices = <<>> THEN Ok(<<>>)
    ELSE LET head == _convert_dict_to_message(Head(choices).message) IN
         IF ~head.ok THEN Fails(head.err, <<>>)
         ELSE LET rest == ConvertChoices(Tail(choices)) IN
              IF ~rest.ok THEN rest ELSE Ok(<<ChatGeneration(head.val)>> \o rest.val)

_create_chat_result(response, usage) ==
    LET generations == ConvertChoices(response.choices) IN
    IF ~generations.ok THEN generations
    ELSE Ok(ChatResult(generations.val, usage))

\* mutant: a body without the output envelope raises inside the retried function
AttemptRaises_Mut(o) == o.raises \/ "output" \notin DOMAIN o.json

\* what the body of _completion_with_retry does with the outcome of client.post:
\* it raises what post (or .json()) raised and returns any JSON body as it is
AttemptRaises(o) == o.raises

\* completion_with_retry after _completion_with_retry has returned rsp_dict
ClassifyResponse(rsp_dict) ==
    IF "code" \in DOMAIN rsp_dict /\ rsp_dict["code"] = REJECTED
    THEN IF "message" \notin DOMAIN rsp_dict
         THEN Fails(Raise("KeyError", "message"), NoneVal)
         ELSE Ok([output |-> [choices |-> << [finish_reason |-> "stop",
                                               message |-> WireAssistant(rsp_dict["message"])] >>],
                  usage |-> [total_tokens |-> 2, output_tokens |-> 1, input_tokens |-> 1]])
    ELSE IF "output" \notin DOMAIN rsp_dict
    THEN IF "message" \notin DOMAIN rsp_dict
         THEN Fails(Raise("KeyError", "message"), NoneVal)
         ELSE Fails(Raise("Exception", rsp_dict["message"]), NoneVal)
    ELSE Ok([output |-> rsp_dict["output"], usage |-> Get(rsp_dict, "usage", NoUsage)])

\* _generate, raw-HTTP branch, once the retried call has returned rsp_dict
RawResult(rsp_dict) ==
    LET classified == ClassifyResponse(rsp_dict) IN
    IF ~classified.ok THEN classified
    ELSE _create_chat_result(classified.val.output, classified.val.usage)

----------------------------------------------------------------------------
(* The DashScope-SDK branch *)

\* the `parameters` dict _generate_with_sdk forwards as **parameters
SdkParameters(params) ==
    LET defaults == [temperature |-> "0.95", top_p |-> "0.8", top_k |-> NoneVal,
                     seed |-> "1234", max_tokens |-> "1024", repetition_penalty |-> "1.1"]
        sampling == [k \in DOMAIN defaults |-> Get(params, k, defaults[k])]
        copied   == [k \in {"enable_search", "result_format", "response_format"}
                          \cap DOMAIN params |-> params[k]]
        named    == Merge(sampling, copied)
    IN Merge(Without(model_kwargs, DOMAIN named), named)

\* the keywords Generation.call is given explicitly (non-streaming call)
SdkExplicitKeywords == {"model", "messages", "result_format"}

\* a keyword given explicitly and again through **parameters is a TypeError
\* raised at the call site, before Generation.call runs
DuplicateKeywords(parameters) == SdkExplicitKeywords \cap DOMAIN parameters

\* the typed response the SDK builds from a JSON body
SdkResponse(r) ==
    [status_code |-> IF "code" \in DOMAIN r THEN 400 ELSE 200,
     output |-> Get(r, "output", [choices |-> <<>>]),
     usage |-> Get(r, "usage", NoUsage),
     code |-> Get(r, "code", NoneVal),
     message |-> Get(r, "message", NoneVal)]

\* _generate_with_sdk, non-streaming, once Generation.call has returned
SdkResult(response) ==
    IF response.status_code = 200
    THEN _create_chat_result(response.output, response.usage)
    ELSE Fails(Raise("Exception", "Error: " \o response.code \o ", " \o response.message),
               NoneVal)

----------------------------------------------------------------------------
(* One logical generate call *)

\* mutant: the messages popped by the first attempt are missing from the later ones
Body_Mut(input, parameters) ==
    [input |-> IF attempt_number = 1 THEN input ELSE Without(input, {"messages"}),
     parameters |-> parameters, model |-> model_name]

Body(input, parameters) == [input |-> input, parameters |-> parameters, model |-> model_name]

Finish(r) ==
    /\ pc' = IF r.ok THEN "Succeeded" ELSE "Failed"
    /\ error' = r.err
    /\ result' = IF r.ok THEN <<r.val>> ELSE <<>>

\* the service has answered: what it does next matters only if the call goes on
NextRemote ==
    IF pc' = "Sleeping" THEN remote' \in TransportOutcomes ELSE remote' = NoOutcome

\* mutant: the pop names the wrong header
PopAccept_Mut(h) == Without(h, {"Content-Type"})

\* completion_with_retry: self.client.headers.pop('Accept', '')
PopAccept(h) == Without(h, {"Accept"})

\* _generate up to the choice of the transport: build the wire messages
Generate ==
    /\ pc = "Idle"
    /\ LET built == _create_message_dicts(messages) IN
       IF built.ok
       THEN /\ message_dicts' = built.val.message_dicts
            /\ pc' = "Requesting"
            /\ remote' \in TransportOutcomes
            /\ headers' = IF use_dashscope_sdk THEN headers ELSE PopAccept(headers)
            /\ UNCHANGED <<error, result>>
       ELSE /\ Finish(built)
            /\ UNCHANGED <<message_dicts, remote, headers>>
    /\ UNCHANGED <<messages, attempt_number, invocations, failures, sleeps, sent,
                   last_outcome, cfgvars, convvars, streamvars, tokvars, sidevars>>

\* the timeout the code hands to the transport: __init__ builds
\* Requests(headers=header) and the attempt calls post(url=url, json=inp), so
\* request_timeout reaches neither
PostTimeout == NoneVal

\* the limit of the transport itself, in force when the code hands it none
TransportDefault == "default"

\* the limit an attempt runs under
TimeoutInForce == IF PostTimeout # NoneVal THEN PostTimeout ELSE TransportDefault

\* what client.post comes back with: the answer of the service, or on a
\* silent service the timeout failure of the limit in force
PostOutcome == IF answers THEN remote ELSE Raised(Raise("Timeout", TimeoutInForce))

\* one run of _completion_with_retry under the retry decorator
CompletionAttempt ==
    /\ pc = "Requesting"
    /\ ~use_dashscope_sdk
    /\ LET built == _build_input_parameters(model_name, message_dicts, _client_params)
           \* tenacity: the wrapped function raised e
           raised(e) ==
               IF stop_after_attempt(attempt_number)
               THEN Finish(Fails(e, NoneVal))
               ELSE pc' = "Sleeping" /\ UNCHANGED <<error, result>>
       IN IF ~built.ok
          THEN /\ raised(built.err)
               /\ UNCHANGED <<invocations, failures, sent, last_outcome, remote>>
          ELSE LET o == PostOutcome IN
                 /\ invocations' = invocations + 1
                 /\ sent' = Append(sent, Body(built.val.input, built.val.parameters))
                 /\ last_outcome' = o
                 /\ IF AttemptRaises(o)
                    THEN /\ failures' = failures + 1
                         /\ raised(IF o.raises THEN o.error
                                   ELSE Raise("Exception", Get(o.json, "message", NoneVal)))
                    ELSE /\ UNCHANGED failures
                         /\ Finish(RawResult(o.json))
                 /\ NextRemote
    /\ UNCHANGED <<messages, message_dicts, attempt_number, sleeps, cfgvars, headers, convvars, streamvars, tokvars, sidevars>>

\* tenacity sleeps, then runs the next attempt
Sleep ==
    /\ pc = "Sleeping"
    /\ sleeps' = Append(sleeps, wait_exponential(attempt_number))
    /\ attempt_number' = attempt_number + 1
    /\ pc' = "Requesting"
    /\ UNCHANGED <<messages, message_dicts, invocations, failures, sent, last_outcome,
                   remote, error, result, cfgvars, headers, convvars, streamvars, tokvars, sidevars>>

\* _generate_with_sdk, non-streaming: no retry decorator
GenerateWithSdk ==
    /\ pc = "Requesting"
    /\ use_dashscope_sdk
    /\ LET parameters == SdkParameters(_client_params) IN
       IF DuplicateKeywords(parameters) # {}
       THEN /\ Finish(Fails(Raise("TypeError", "got multiple values for keyword argument"),
                            NoneVal))
            /\ UNCHANGED <<invocations, failures, sent, last_outcome, remote>>
       ELSE LET o == remote IN
              /\ invocations' = invocations + 1
              /\ sent' = Append(sent, Body(("messages" :> message_dicts), parameters))
              /\ last_outcome' = o
              /\ IF o.raises
                 THEN failures' = failures + 1 /\ Finish(Fails(o.error, NoneVal))
                 ELSE UNCHANGED failures /\ Finish(SdkResult(SdkResponse(o.json)))
              /\ NextRemote
    /\ UNCHANGED <<messages, message_dicts, attempt_number, sleeps, cfgvars, headers, convvars, streamvars, tokvars, sidevars>>

\* the caller issues the next generate call on the same instance
NewCall ==
    /\ pc \in {"Succeeded", "Failed", "Completed"}
    /\ messages' \in Conversations
    /\ pc' = "Idle"
    /\ message_dicts' = <<>>
    /\ attempt_number' = 1
    /\ invocations' = 0
    /\ failures' = 0
    /\ sleeps' = <<>>
    /\ sent' = <<>>
    /\ last_outcome' = NoOutcome
    /\ remote' = NoOutcome
    /\ error' = NoError
    /\ result' = <<>>
    /\ received' = <<>>
    /\ inner_completion' = ""
    /\ cur_role' = "assistant"
    /\ tool_calls' = <<>>
    /\ emitted' = <<>>
    /\ UNCHANGED <<cfgvars, headers, convvars, run_manager, tokvars, sidevars>>

\* the headers __init__ gives the Requests client
ClientHeaders(api_key) ==
    ("Authorization" :> ("Bearer " \o api_key)) @@ ("Content-Type" :> "application/json")

ConfigInit ==
    /\ use_dashscope_sdk \in BOOLEAN
    /\ max_retries \in 0..MaxRetriesBound
    /\ model_name \in ModelNames
    /\ model_kwargs \in ModelKwargsPool
    /\ headers = IF use_dashscope_sdk THEN EmptyDict ELSE ClientHeaders("sk-1")
    /\ tiktoken_model_name = NoneVal

\* no streaming call under way
StreamIdle ==
    /\ received = <<>>
    /\ inner_completion = ""
    /\ cur_role = "assistant"
    /\ tool_calls = <<>>
    /\ emitted = <<>>

\* one instance in the process, a service that answers, no timeout configured,
\* the request builder not exercised on its own
SideOff ==
    /\ request_timeout = NoneVal
    /\ answers = TRUE
    /\ dashscope_api_key = IF use_dashscope_sdk THEN "sk-1" ELSE NoneVal
    /\ instances = EmptyDict
    /\ b_pc = "off"
    /\ b_kwargs = EmptyDict
    /\ b_out = Pending

\* the token accountant not in use
TokenOff ==
    /\ t_pc = "off"
    /\ t_text = ""
    /\ t_out = Pending
    /\ warnings = 0

CallInit ==
    /\ pc = "Idle"
    /\ message_dicts = <<>>
    /\ attempt_number = 1
    /\ invocations = 0
    /\ failures = 0
    /\ sleeps = <<>>
    /\ sent = <<>>
    /\ last_outcome = NoOutcome
    /\ error = NoError
    /\ result = <<>>

Init ==
    /\ ConfigInit
    /\ streaming = FALSE
    /\ run_manager = FALSE
    /\ StreamIdle
    /\ TokenOff
    /\ SideOff
    /\ CallInit
    /\ remote = NoOutcome
    /\ messages \in Conversations
    /\ c_pc = "off"
    /\ c_msg = HumanMessage("", NoKwargs)
    /\ c_wire = Pending
    /\ c_back = Pending

Next == Generate \/ CompletionAttempt \/ Sleep \/ GenerateWithSdk \/ NewCall

Spec == Init /\ [][Next]_vars

\* the converter on its own: every message through toWire then fromWire, and
\* every wire object through fromWire
ConvInit ==
    /\ use_dashscope_sdk = FALSE
    /\ max_retries = 3
    /\ model_name = "qwen-turbo"
    /\ model_kwargs = EmptyDict
    /\ headers = ClientHeaders("sk-1")
    /\ streaming = FALSE
    /\ tiktoken_model_name = NoneVal
    /\ run_manager = FALSE
    /\ StreamIdle
    /\ TokenOff
    /\ SideOff
    /\ CallInit
    /\ remote = NoOutcome
    /\ messages = <<>>
    /\ c_back = Pending
    /\ \/ c_pc = "msg" /\ c_msg \in Messages /\ c_wire = Pending
       \/ c_pc = "dict" /\ c_msg = HumanMessage("", NoKwargs)
          /\ c_wire \in {Ok(d) : d \in WireDicts}

ConvNext == ToWire \/ FromWire

ConvSpec == ConvInit /\ [][ConvNext]_vars

----------------------------------------------------------------------------
(* Streaming: the chunk loops of _generate_with_sdk and of _agenerate *)

MaxChunks == 3

\* the tool_calls list of one chunk: a fragment of the arguments of one call
ToolCallFragment(id, arguments) == << [id |-> id, name |-> "lookup", arguments |-> arguments] >>

\* one item of the stream: the (is_error, stream_resp) pair of the async
\* generator, stream_resp already parsed by json.loads
Chunk(message, rest) ==
    [is_error |-> FALSE, msg |-> ("output" :> [choices |-> << Choice(message) >>]) @@ rest]

ErrorChunk == [is_error |-> TRUE, msg |-> ("code" :> "Throttling") @@ ("message" :> "busy")]

ChunkPool ==
    { Chunk(("role" :> "assistant") @@ ("content" :> "Hel"), EmptyDict),
      Chunk(("content" :> "lo"), EmptyDict),
      Chunk(("content" :> ""), ("usage" :> Usage(5, 3))),
      Chunk(("role" :> "assistant") @@ ("tool_calls" :> ToolCallFragment("call_A", "{\"a\":1")),
            EmptyDict),
      Chunk(("content" :> "") @@ ("tool_calls" :> ToolCallFragment("call_A", ",\"b\":2}")),
            EmptyDict),
      Chunk(("content" :> "") @@ ("tool_calls" :> ToolCallFragment("call_B", "{\"c\":3}")),
            EmptyDict),
      Chunk(("role" :> "user") @@ ("content" :> "hi"), EmptyDict),
      ErrorChunk }

\* the loop variables of one streaming call
StreamState(content, role, calls, tokens) ==
    [inner_completion |-> content, role |-> role, tool_calls |-> calls, emitted |-> tokens]

\* mutant: the token is put in front of the buffer
AppendToken_Mut(inner, token) == (IF token \in {NoneVal, ""} THEN "" ELSE token) \o inner

\* inner_completion += token or ''
AppendToken(inner, token) == inner \o (IF token \in {NoneVal, ""} THEN "" ELSE token)

\* mutant: the newest token is put in front of the ones emitted before
EmitToken_Mut(tokens, token) == IF run_manager THEN <<token>> \o tokens ELSE tokens

\* if run_manager: run_manager.on_llm_new_token(token)
EmitToken(tokens, token) == IF run_manager THEN Append(tokens, token) ELSE tokens

\* the merge of a chunk's tool_calls into the accumulated ones: the first
\* truthy list is kept as it is, every later one adds the arguments of its
\* first entry to the arguments of the first accumulated entry
MergeToolCalls(calls, _tool_calls) ==
    IF _tool_calls = <<>> THEN calls
    ELSE IF calls = <<>> THEN _tool_calls
    ELSE [calls EXCEPT ![1].arguments = @ \o _tool_calls[1].arguments]

\* mutant: a chunk without a role resets the role to assistant
AsyncChoiceStep_Mut(st, choice) ==
    LET token == Get(choice.message, "content", "") IN
    StreamState(AppendToken(st.inner_completion, token),
                Get(choice.message, "role", "assistant"),
                MergeToolCalls(st.tool_calls, Get(choice.message, "tool_calls", <<>>)),
                EmitToken(st.emitted, token))

\* the body of `for choice in choices` in _agenerate
AsyncChoiceStep(st, choice) ==
    LET token == Get(choice.message, "content", "") IN
    StreamState(AppendToken(st.inner_completion, token),
                Get(choice.message, "role", st.role),
                MergeToolCalls(st.tool_calls, Get(choice.message, "tool_calls", <<>>)),
                EmitToken(st.emitted, token))

RECURSIVE AsyncChoices(_, _)
AsyncChoices(st, choices) ==
    IF choices = <<>> THEN st
    ELSE AsyncChoices(AsyncChoiceStep(st, Head(choices)), Tail(choices))

\* mutant: a chunk flagged as an error is skipped and the loop goes on
OnErrorChunk_Mut(st, c) == Ok(st)

\* if is_error: logger.error(stream_resp); raise ValueError(stream_resp)
OnErrorChunk(st, c) ==
    Fails(Raise("ValueError", Get(c.msg, "message", "")), st)

\* one iteration of the `async for` of _agenerate
AsyncChunkStep(st, c) ==
    IF c.is_error THEN OnErrorChunk(st, c)
    ELSE IF "output" \notin DOMAIN c.msg
    THEN Fails(Raise("AttributeError", "'NoneType' object has no attribute 'get'"), st)
    ELSE Ok(AsyncChoices(st, c.msg["output"].choices))

\* the typed chunk the SDK yields for one item of the stream
SdkChunk(c) ==
    [status_code |-> IF c.is_error THEN 400 ELSE 200,
     output |-> Get(c.msg, "output", [choices |-> <<>>]),
     code |-> Get(c.msg, "code", NoneVal),
     message |-> Get(c.msg, "message", NoneVal)]

\* one iteration of `for chunk in response` in _generate_with_sdk
SdkChunkStep(st, chunk) ==
    IF chunk.status_code = 200
    THEN LET choice == chunk.output.choices[1]
             token == Get(choice.message, "content", "")
         IN Ok(StreamState(AppendToken(st.inner_completion, token),
                           Get(choice.message, "role", st.role),
                           st.tool_calls,
                           EmitToken(st.emitted, token)))
    ELSE Fails(Raise("Exception", "Error: " \o chunk.code \o ", " \o chunk.message), st)

\* mutant: the usage of the last chunk is attached to the result
StreamChatResult_Mut(message) ==
    [generations |-> << ChatGeneration(message) >>,
     llm_output |-> IF received # <<>> /\ "usage" \in DOMAIN received[Len(received)].msg
                    THEN [token_usage |-> received[Len(received)].msg["usage"],
                          model_name |-> model_name]
                    ELSE EmptyDict]

\* ChatResult(generations=[ChatGeneration(message=message)]): llm_output is
\* left at None, written here as the empty mapping
StreamChatResult(message) ==
    [generations |-> << ChatGeneration(message) >>, llm_output |-> EmptyDict]

\* the end of the async stream: the final message goes through fromWire
AsyncFinal(st) ==
    LET message == _convert_dict_to_message(("content" :> st.inner_completion)
                       @@ ("role" :> st.role) @@ ("tool_calls" :> st.tool_calls))
    IN IF message.ok THEN Ok(StreamChatResult(message.val)) ELSE message

\* the end of the SDK stream: AIMessage(content=inner_completion, role=role)
SdkFinal(st) ==
    Ok(StreamChatResult(Msg("ai", st.inner_completion, st.role, NoneVal, NoneVal, NoKwargs)))

\* the keywords the streaming Generation.call is given explicitly
SdkStreamKeywords == SdkExplicitKeywords \cup {"stream"}

\* mutant: a stream that has ended leaves the call in Streaming
StreamFinish_Mut(r) ==
    /\ pc' = IF r.ok THEN "Streaming" ELSE "Failed"
    /\ error' = r.err
    /\ result' = IF r.ok THEN <<r.val>> ELSE <<>>

StreamFinish(r) ==
    /\ pc' = IF r.ok THEN "Completed" ELSE "Failed"
    /\ error' = r.err
    /\ result' = IF r.ok THEN <<r.val>> ELSE <<>>

\* acompletion_with_retry, as the specification describes the streaming
\* transport: one invocation, which raises or opens the stream; no retry and
\* no sleep; the client and the configuration are only read
acompletion_with_retry(e) ==
    /\ invocations' = invocations + 1
    /\ IF e = NoError
       THEN pc' = "Streaming" /\ UNCHANGED <<error, result>>
       ELSE StreamFinish(Fails(e, NoneVal))

\* how opening the stream can end: it opens, or the transport raises; on a
\* silent service the request timeout ends the attempt
StreamOpenings ==
    IF answers THEN {NoError} \cup TransportErrors
    ELSE {Raise("Timeout", IF request_timeout # NoneVal THEN request_timeout
                           ELSE TransportDefault)}

\* mutant: a stream that failed is opened again after a backoff sleep
RaiseFromStream_Mut(e) ==
    /\ pc' = "Streaming"
    /\ invocations' = invocations + 1
    /\ sleeps' = Append(sleeps, min_seconds)
    /\ UNCHANGED <<error, result>>

\* an exception raised inside the chunk loop leaves the generate call: no
\* handler encloses the loop and no retry decorator wraps it
RaiseFromStream(e) ==
    /\ StreamFinish(Fails(e, NoneVal))
    /\ UNCHANGED <<invocations, sleeps>>

\* a streaming call up to the open stream: _generate with stream=True on an
\* SDK instance, _agenerate on a raw-HTTP instance
StreamOpen ==
    /\ pc = "Idle"
    /\ streaming
    /\ LET built == _create_message_dicts(messages) IN
       IF ~built.ok
       THEN /\ StreamFinish(built)
            /\ UNCHANGED <<message_dicts, invocations>>
       ELSE /\ message_dicts' = built.val.message_dicts
            /\ IF use_dashscope_sdk
               THEN LET parameters == SdkParameters(Merge(_client_params, ("stream" :> "True")))
                    IN IF SdkStreamKeywords \cap DOMAIN parameters # {}
                       THEN /\ StreamFinish(Fails(Raise("TypeError",
                                      "got multiple values for keyword argument"), NoneVal))
                            /\ UNCHANGED invocations
                       ELSE /\ invocations' = invocations + 1
                            /\ pc' = "Streaming"
                            /\ UNCHANGED <<error, result>>
               ELSE \E e \in StreamOpenings : acompletion_with_retry(e)
    /\ UNCHANGED <<messages, attempt_number, failures, sleeps, sent, last_outcome, remote,
                   cfgvars, headers, convvars, streamvars, tokvars, sidevars>>

\* the loop reads the next chunk of the stream
ReadChunk ==
    /\ pc = "Streaming"
    /\ Len(received) < MaxChunks
    /\ \E c \in ChunkPool :
         LET st == StreamState(inner_completion, cur_role, tool_calls, emitted)
             step == IF use_dashscope_sdk THEN SdkChunkStep(st, SdkChunk(c))
                     ELSE AsyncChunkStep(st, c)
         IN /\ received' = Append(received, c)
            /\ inner_completion' = step.val.inner_completion
            /\ cur_role' = step.val.role
            /\ tool_calls' = step.val.tool_calls
            /\ emitted' = step.val.emitted
            /\ IF step.ok
               THEN UNCHANGED <<pc, error, result, invocations, sleeps>>
               ELSE RaiseFromStream(step.err)
    /\ UNCHANGED <<messages, message_dicts, attempt_number, failures, sent, last_outcome,
                   remote, cfgvars, headers, convvars, run_manager, tokvars, sidevars>>

\* the stream is exhausted: the final message is assembled
EndOfStream ==
    /\ pc = "Streaming"
    /\ LET st == StreamState(inner_completion, cur_role, tool_calls, emitted) IN
       StreamFinish(IF use_dashscope_sdk THEN SdkFinal(st) ELSE AsyncFinal(st))
    /\ UNCHANGED <<messages, message_dicts, attempt_number, invocations, failures, sleeps,
                   sent, last_outcome, remote, cfgvars, headers, convvars, streamvars,
                   tokvars, sidevars>>

StreamConversations == { << HumanMessage("hi", NoKwargs) >>, << OtherMessage("hi", NoKwargs) >> }

StreamInit ==
    /\ use_dashscope_sdk \in BOOLEAN
    /\ max_retries = 3
    /\ model_name = "qwen-turbo"
    /\ model_kwargs = EmptyDict
    /\ headers = IF use_dashscope_sdk THEN EmptyDict ELSE ClientHeaders("sk-1")
    /\ tiktoken_model_name = NoneVal
    /\ streaming = TRUE
    /\ run_manager \in BOOLEAN
    /\ StreamIdle
    /\ TokenOff
    /\ SideOff
    /\ CallInit
    /\ messages \in StreamConversations
    /\ remote = NoOutcome
    /\ c_pc = "off" /\ c_msg = HumanMessage("", NoKwargs) /\ c_wire = Pending /\ c_back = Pending

StreamNext == StreamOpen \/ ReadChunk \/ EndOfStream

StreamSpec == StreamInit /\ [][StreamNext]_vars

----------------------------------------------------------------------------
(* The asynchronous non-streaming call: the else branch of _agenerate *)

\* what the async transport yields for a non-streaming request: nothing, or
\* one (is_error, response) pair holding the JSON body of the service
AsyncResponses ==
    { <<>> } \cup { << [is_error |-> "code" \in DOMAIN r, msg |-> r] >> : r \in Responses }

\* response = json.loads(response[0]);
\* self._create_chat_result(response.get('output'), response.get('usage'))
\* (the is_error flag of the pair is dropped by the comprehension)
AsyncPlainResult(items) ==
    IF items = <<>> THEN Fails(Raise("IndexError", "list index out of range"), NoneVal)
    ELSE LET response == items[1].msg IN
         IF "output" \notin DOMAIN response
         THEN Fails(Raise("TypeError", "'NoneType' object is not subscriptable"), NoneVal)
         ELSE _create_chat_result(response["output"], Get(response, "usage", NoneVal))

\* _agenerate with streaming off
AGenerate ==
    /\ pc = "Idle"
    /\ ~streaming
    /\ ~use_dashscope_sdk
    /\ LET built == _create_message_dicts(messages) IN
       IF ~built.ok
       THEN /\ Finish(built)
            /\ UNCHANGED <<message_dicts, invocations, received>>
       ELSE /\ message_dicts' = built.val.message_dicts
            /\ invocations' = invocations + 1
            /\ \E items \in AsyncResponses :
                  /\ received' = items
                  /\ Finish(AsyncPlainResult(items))
    /\ UNCHANGED <<messages, attempt_number, failures, sleeps, sent, last_outcome, remote,
                   cfgvars, headers, convvars, run_manager, inner_completion, cur_role,
                   tool_calls, emitted, tokvars, sidevars>>

AsyncInit ==
    /\ use_dashscope_sdk = FALSE
    /\ max_retries = 3
    /\ model_name \in ModelNames
    /\ model_kwargs \in ModelKwargsPool
    /\ headers = ClientHeaders("sk-1")
    /\ tiktoken_model_name = NoneVal
    /\ streaming = FALSE
    /\ run_manager = FALSE
    /\ StreamIdle
    /\ TokenOff
    /\ SideOff
    /\ CallInit
    /\ messages \in Conversations
    /\ remote = NoOutcome
    /\ c_pc = "off" /\ c_msg = HumanMessage("", NoKwargs) /\ c_wire = Pending /\ c_back = Pending

AsyncNext == AGenerate \/ NewCall

AsyncSpec == AsyncInit /\ [][AsyncNext]_vars

----------------------------------------------------------------------------
(* The request builder on its own *)

OptionalEntry(key, values) == { EmptyDict } \cup { key :> v : v \in values }

\* keyword arguments that reach _build_input_parameters
BuildKwargs ==
    { Merge(Merge(a, b), c) : a \in OptionalEntry("enable_search", {"True", "False"}),
                              b \in OptionalEntry("customized_model_id", {"cm-1"}),
                              c \in OptionalEntry("stream", {"True"}) }

BuildModels == ModelNames \cup {"chatglm-std"}

BuildMessages ==
    { <<>>, << ("role" :> "user") @@ ("content" :> "hi") >>,
      << ("role" :> "user") @@ ("content" :> "hi"), WireAssistant("hello") >> }

\* ChatQWen._build_input_parameters(model, messages=messages, **kwargs)
BuildInputParameters ==
    /\ b_pc = "ready"
    /\ b_out' = _build_input_parameters(model_name, message_dicts, b_kwargs)
    /\ b_pc' = "built"
    /\ UNCHANGED <<b_kwargs, answers, dashscope_api_key, instances, cfgvars, headers,
                   callvars, convvars, streamvars, tokvars>>

BuildInit ==
    /\ use_dashscope_sdk = FALSE
    /\ max_retries = 3
    /\ model_name \in BuildModels
    /\ model_kwargs = EmptyDict
    /\ headers = ClientHeaders("sk-1")
    /\ tiktoken_model_name = NoneVal
    /\ request_timeout = NoneVal
    /\ streaming = FALSE
    /\ run_manager = FALSE
    /\ StreamIdle
    /\ TokenOff
    /\ pc = "Idle" /\ messages = <<>> /\ message_dicts \in BuildMessages
    /\ attempt_number = 1 /\ invocations = 0 /\ failures = 0 /\ sleeps = <<>>
    /\ sent = <<>> /\ last_outcome = NoOutcome /\ remote = NoOutcome
    /\ error = NoError /\ result = <<>>
    /\ c_pc = "off" /\ c_msg = HumanMessage("", NoKwargs) /\ c_wire = Pending /\ c_back = Pending
    /\ answers = TRUE
    /\ dashscope_api_key = NoneVal
    /\ instances = EmptyDict
    /\ b_pc = "ready"
    /\ b_kwargs \in BuildKwargs
    /\ b_out = Pending

BuildNext == BuildInputParameters

BuildSpec == BuildInit /\ [][BuildNext]_vars

----------------------------------------------------------------------------
(* Several instances in one process: __init__ and the credential of a call *)

MaxCalls == 2

InstanceNames == {"first", "second"}
ApiKeys == {"sk-1", "sk-2", "sk-3"}

\* the keys of the instances constructed so far
KeysInUse == { instances[i].dashscope_api_key : i \in DOMAIN instances }

\* ChatQWen(dashscope_api_key=key, use_dashscope_sdk=sdk): an SDK instance
\* stores its key in the module attribute dashscope.api_key, a raw-HTTP
\* instance in the headers of its own client
Construct(i) ==
    /\ i \notin DOMAIN instances
    /\ \E key \in ApiKeys \ KeysInUse, sdk \in BOOLEAN :
         /\ instances' = instances @@
                (i :> [dashscope_api_key |-> key, use_dashscope_sdk |-> sdk,
                       headers |-> IF sdk THEN EmptyDict ELSE ClientHeaders(key),
                       calls |-> 0, credential |-> NoneVal])
         /\ dashscope_api_key' = IF sdk THEN key ELSE dashscope_api_key
    /\ UNCHANGED <<answers, b_pc, b_kwargs, b_out, cfgvars, headers, callvars, convvars,
                   streamvars, tokvars>>

\* a generate call through instance i, up to the credential it presents: the
\* Authorization header of its client in raw-HTTP mode; in SDK mode the value
\* of dashscope.api_key at the time of the call, if Generation.call is reached
InstanceCall(i) ==
    /\ i \in DOMAIN instances
    /\ instances[i].calls < MaxCalls
    /\ LET credential ==
               IF ~instances[i].use_dashscope_sdk THEN instances[i].headers["Authorization"]
               ELSE IF DuplicateKeywords(SdkParameters(_client_params)) # {}
               THEN instances[i].credential
               ELSE dashscope_api_key
       IN instances' = [instances EXCEPT ![i].calls = @ + 1, ![i].credential = credential]
    /\ UNCHANGED <<answers, dashscope_api_key, b_pc, b_kwargs, b_out, cfgvars, headers,
                   callvars, convvars, streamvars, tokvars>>

KeyInit ==
    /\ use_dashscope_sdk = FALSE
    /\ max_retries = 3
    /\ model_name = "qwen-turbo"
    /\ model_kwargs = EmptyDict
    /\ headers = EmptyDict
    /\ tiktoken_model_name = NoneVal
    /\ streaming = FALSE
    /\ run_manager = FALSE
    /\ StreamIdle
    /\ TokenOff
    /\ SideOff
    /\ CallInit
    /\ messages = <<>>
    /\ remote = NoOutcome
    /\ c_pc = "off" /\ c_msg = HumanMessage("", NoKwargs) /\ c_wire = Pending /\ c_back = Pending

KeyNext == \E i \in InstanceNames : Construct(i) \/ InstanceCall(i)

KeySpec == KeyInit /\ [][KeyNext]_vars

\* one call, synchronous or streaming, on an instance of either mode, over a
\* service that answers or stays silent; the process keeps running
FairInit ==
    /\ use_dashscope_sdk \in BOOLEAN
    /\ max_retries \in 0..MaxRetriesBound
    /\ model_name = "qwen-turbo"
    /\ model_kwargs = EmptyDict
    /\ headers = IF use_dashscope_sdk THEN EmptyDict ELSE ClientHeaders("sk-1")
    /\ tiktoken_model_name = NoneVal
    /\ request_timeout \in {NoneVal, "5"}
    /\ streaming \in BOOLEAN
    /\ run_manager = FALSE
    /\ StreamIdle
    /\ TokenOff
    /\ CallInit
    /\ messages \in StreamConversations
    /\ remote = NoOutcome
    /\ c_pc = "off" /\ c_msg = HumanMessage("", NoKwargs) /\ c_wire = Pending /\ c_back = Pending
    /\ answers \in BOOLEAN
    /\ dashscope_api_key = IF use_dashscope_sdk THEN "sk-1" ELSE NoneVal
    /\ instances = EmptyDict
    /\ b_pc = "off" /\ b_kwargs = EmptyDict /\ b_out = Pending

FairNext ==
    \/ Generate \/ CompletionAttempt \/ Sleep \/ GenerateWithSdk
    \/ StreamOpen \/ ReadChunk \/ EndOfStream

FairSpec == FairInit /\ [][FairNext]_vars /\ WF_vars(FairNext)

\* instances of both kinds, each taking synchronous and streaming calls in
\* any order
AllInit == Init \/ StreamInit

AllNext == Next \/ StreamNext

AllSpec == AllInit /\ [][AllNext]_vars

----------------------------------------------------------------------------
(* Properties of the retry engine and of the synchronous path (Spec)       *)

Terminal == pc \in {"Succeeded", "Failed"}

\* the conversation converts and the request body can be built
RequestBuildable ==
    /\ ConvertAll(messages).ok
    /\ use_dashscope_sdk
         \/ _build_input_parameters(model_name, <<>>, _client_params).ok

\* the service's answer to the call: the one received last, or the one waiting
\* for a request that was never sent
Answer == IF invocations = 0 THEN remote ELSE last_outcome

\* C1: with max_attempts = k >= 1, in either transport mode, a generate call
\* whose transport invocations all fail invokes the transport exactly k times
\* and hands the caller the error of the last invocation, unwrapped.
C1_RetryBoundBothModes ==
    (pc = "Failed" /\ RequestBuildable /\ max_retries >= 1 /\ failures = invocations)
        => (invocations = max_retries /\ error = last_outcome.error)

\* C2 as stated: for every max_attempts (0 included) the transport invocations
\* of one generate call never exceed max_attempts.
C2_AttemptsNeverExceedMax == invocations <= max_retries

\* C2 amended: the transport invocations of one generate call never exceed
\* max(1, max_attempts); the first attempt is always made.
C2_AttemptsNeverExceedMaxOrOne == invocations <= Max(1, max_retries)

C2_Witness ==
    pc = "Failed" /\ max_retries >= 2 /\ invocations = max_retries /\ failures = invocations

IsRejection(o) ==
    /\ ~o.raises
    /\ "code" \in DOMAIN o.json
    /\ o.json["code"] = "DataInspectionFailed"
    /\ "message" \in DOMAIN o.json

\* C4: in either transport mode, a call the service answers with the
\* content-inspection rejection and message text m succeeds with exactly one
\* generation, an assistant message of content m, finish reason "stop" in the
\* synthesized choice, and usage prompt 1, completion 1, total 2.
C4_ModerationMasking ==
    (Terminal /\ RequestBuildable /\ IsRejection(Answer)) =>
        /\ pc = "Succeeded"
        /\ error = NoError
        /\ Len(result) = 1
        /\ Len(result[1].generations) = 1
        /\ result[1].generations[1].message.type = "ai"
        /\ result[1].generations[1].message.content = Answer.json["message"]
        /\ ClassifyResponse(Answer.json).val.output.choices[1].finish_reason = "stop"
        /\ result[1].llm_output.token_usage =
               [input_tokens |-> 1, output_tokens |-> 1, total_tokens |-> 2]

LacksEnvelope(o) ==
    /\ ~o.raises
    /\ ~("code" \in DOMAIN o.json /\ o.json["code"] = "DataInspectionFailed")
    /\ "output" \notin DOMAIN o.json

\* C5: a raw response without the rejection code and without the output
\* envelope, with or without a message field, makes generate fail with a
\* remote-generation error carrying the remote message; no result is returned.
C5_MissingEnvelopeFails ==
    (Terminal /\ invocations >= 1 /\ LacksEnvelope(last_outcome)) =>
        /\ pc = "Failed"
        /\ result = <<>>
        /\ error.kind = "Exception"
        /\ "message" \in DOMAIN last_outcome.json
              => error.text = last_outcome.json["message"]

IsFailureEnvelope(o) == LacksEnvelope(o) /\ "message" \in DOMAIN o.json

\* C6 as stated: a failure envelope is retried, so a call that ends with the
\* remote-generation error has made max_attempts transport invocations.
C6_EnvelopeRetried ==
    (pc = "Failed" /\ invocations >= 1 /\ IsFailureEnvelope(last_outcome))
        => invocations >= max_retries

\* C6 amended: a failure envelope is not retried.  Whenever the latest
\* transport invocation returned one, the call has failed with the remote
\* message as its error: it is never sleeping or requesting again.
C6_EnvelopeEndsCall ==
    (invocations >= 1 /\ IsFailureEnvelope(last_outcome)) =>
        /\ pc = "Failed"
        /\ error = Raise("Exception", last_outcome.json["message"])
        /\ result = <<>>
        /\ Len(sleeps) = invocations - 1

C6_Witness ==
    /\ pc = "Failed" /\ IsFailureEnvelope(last_outcome)
    /\ invocations = 2 /\ max_retries >= 4 /\ failures = 1

HasNamelessFunction(msgs) ==
    \E i \in DOMAIN msgs : msgs[i].type = "function" /\ msgs[i].name = NoneVal

\* C9: a function-role message without a name makes the conversion fail, so a
\* call whose conversation holds one never reaches the transport and never
\* sleeps.
C9_NamelessFunctionFailsFast ==
    HasNamelessFunction(messages)
        => (invocations = 0 /\ sleeps = <<>> /\ pc \in {"Idle", "Failed"})

\* C10: every request body holds one wire message per message of the
\* conversation, the i-th being toWire of the i-th message; the generations
\* of a result are the converted candidates of the response, in its order.
C10_OrderPreserved ==
    /\ \A i \in DOMAIN sent :
         LET ms == sent[i].input["messages"] IN
         /\ Len(ms) = Len(messages)
         /\ \A j \in DOMAIN ms : ms[j] = _convert_message_to_dict(messages[j]).val
    /\ (pc = "Succeeded" /\ "output" \in DOMAIN last_outcome.json) =>
         LET cs == last_outcome.json["output"].choices
             gs == result[1].generations
         IN /\ Len(gs) = Len(cs)
            /\ \A j \in DOMAIN cs :
                 gs[j].message = _convert_dict_to_message(cs[j].message).val

C10_Witness ==
    /\ pc = "Succeeded"
    /\ Len(messages) = 2 /\ messages[1] # messages[2]
    /\ Len(sent) >= 2
    /\ Len(result[1].generations) = 2
    /\ result[1].generations[1] # result[1].generations[2]

----------------------------------------------------------------------------
(* Properties of the converter (ConvSpec)                                  *)

ReservedRoles == {"user", "assistant", "system", "function", "tool"}
CallKeys == {"function_call", "tool_calls"}

\* the six message kinds, a function message having its name
WellFormed(m) ==
    /\ m.type \in KnownKinds
    /\ m.type = "function" => m.name # NoneVal

\* C7 as stated: fromWire(toWire(m)) = m for every message variant.
C7_RoundTripAll ==
    (c_pc = "back" /\ WellFormed(c_msg)) => (c_back.ok /\ c_back.val = c_msg)

RoundTrips(m) ==
    /\ "name" \notin DOMAIN m.additional_kwargs
    /\ m.type # "ai" => DOMAIN m.additional_kwargs = {}
    /\ m.type = "chat" => m.role \notin ReservedRoles

\* C7 amended: fromWire(toWire(m)) = m exactly for the messages without a
\* name in their metadata, with function_call / tool_calls only on assistant
\* messages, and, for a custom-role message, a role that is none of user,
\* assistant, system, function, tool.
C7_RoundTripExactly ==
    (c_pc = "back" /\ WellFormed(c_msg)) =>
        ((c_back.ok /\ c_back.val = c_msg) <=> RoundTrips(c_msg))

C7_Witness ==
    /\ c_pc = "back" /\ c_back.ok /\ c_back.val = c_msg
    /\ c_msg.type = "ai" /\ DOMAIN c_msg.additional_kwargs = CallKeys

\* whether conversion kept the call data under key k
KeptToWire(k) ==
    k \in DOMAIN c_wire.val /\ c_wire.val[k] = c_msg.additional_kwargs[k]
KeptFromWire(k) ==
    /\ k \in DOMAIN c_back.val.additional_kwargs
    /\ c_back.val.additional_kwargs[k] = c_wire.val[k]

\* C8 as stated: whatever the role, toWire and fromWire carry the
\* function_call and tool_calls of their argument into their result.
C8_CallDataNeverDropped ==
    /\ (c_pc = "wire" /\ c_wire.ok) =>
          \A k \in CallKeys \cap DOMAIN c_msg.additional_kwargs : KeptToWire(k)
    /\ (c_pc = "parsed" /\ c_back.ok) =>
          \A k \in CallKeys \cap DOMAIN c_wire.val : KeptFromWire(k)

\* C8 amended: toWire carries function_call / tool_calls exactly for assistant
\* messages and fromWire exactly for assistant-role wire objects; for every
\* other role they are dropped.
C8_CallDataKeptForAssistant ==
    /\ (c_pc = "wire" /\ c_wire.ok) =>
          \A k \in CallKeys \cap DOMAIN c_msg.additional_kwargs :
              KeptToWire(k) <=> c_msg.type = "ai"
    /\ (c_pc = "parsed" /\ c_back.ok) =>
          \A k \in CallKeys \cap DOMAIN c_wire.val :
              KeptFromWire(k) <=> c_wire.val["role"] = "assistant"

C8_Witness ==
    /\ c_pc = "parsed" /\ c_back.ok
    /\ c_wire.val["role"] = "assistant"
    /\ CallKeys \subseteq DOMAIN c_wire.val
    /\ \A k \in CallKeys : KeptFromWire(k)

----------------------------------------------------------------------------
(* Properties of the streaming paths (StreamSpec) *)

\* the message of the only choice of a success chunk
ChunkMessage(c) == c.msg["output"].choices[1].message

\* the content token a chunk carries ("" when it carries none)
ContentOf(c) == IF c.is_error THEN "" ELSE Get(ChunkMessage(c), "content", "")

RECURSIVE Concatenation(_)
Concatenation(chunks) ==
    IF chunks = <<>> THEN "" ELSE ContentOf(Head(chunks)) \o Concatenation(Tail(chunks))

FinalMessage == result[1].generations[1].message

\* C11: when a streaming call terminates normally, the content of the final
\* message is the concatenation, in arrival order, of the content tokens of
\* all the chunks received; an absent or empty token adds nothing.
C11_StreamContentIsConcatenation ==
    pc = "Completed" => FinalMessage.content = Concatenation(received)

C11_Witness ==
    /\ pc = "Completed"
    /\ Len(received) = 3
    /\ ContentOf(received[1]) = "Hel"
    /\ ContentOf(received[2]) = "lo"
    /\ ContentOf(received[3]) = ""
    /\ FinalMessage.content = "Hello"

ToolCallIds == {"call_A", "call_B"}

\* the tool-call fragments a chunk carries
FragmentsOf(c) == IF c.is_error THEN <<>> ELSE Get(ChunkMessage(c), "tool_calls", <<>>)

\* the arguments text a list of fragments holds for one tool-call id
RECURSIVE JoinArguments(_, _)
JoinArguments(id, calls) ==
    IF calls = <<>> THEN ""
    ELSE (IF Head(calls).id = id THEN Head(calls).arguments ELSE "")
         \o JoinArguments(id, Tail(calls))

\* the fragments of one tool-call id over the whole stream, in arrival order
RECURSIVE ArgumentsFor(_, _)
ArgumentsFor(id, chunks) ==
    IF chunks = <<>> THEN ""
    ELSE JoinArguments(id, FragmentsOf(Head(chunks))) \o ArgumentsFor(id, Tail(chunks))

\* the chunks that carry a fragment for the id
ChunksFor(id) ==
    { i \in DOMAIN received : \E j \in DOMAIN FragmentsOf(received[i]) :
                                 FragmentsOf(received[i])[j].id = id }

FinalToolCalls == Get(FinalMessage.additional_kwargs, "tool_calls", <<>>)

EntriesFor(id) == { i \in DOMAIN FinalToolCalls : FinalToolCalls[i].id = id }

AsyncCompleted == pc = "Completed" /\ ~use_dashscope_sdk /\ FinalMessage.type = "ai"

\* C12: in the asynchronous streaming path, when several chunks carry
\* argument fragments for the same tool-call id, the final message holds that
\* tool call with the concatenation of those fragments in arrival order.
C12_SameIdFragmentsConcatenated ==
    AsyncCompleted =>
        \A id \in ToolCallIds :
            Cardinality(ChunksFor(id)) >= 2 =>
                \E i \in EntriesFor(id) :
                    FinalToolCalls[i].arguments = ArgumentsFor(id, received)

\* C13: fragments are accumulated per tool-call id: the final message holds
\* exactly one tool call for every id seen in the stream, each with the
\* fragments of its own id only.
C13_OneToolCallPerId ==
    AsyncCompleted =>
        /\ \A id \in ToolCallIds :
              Cardinality(EntriesFor(id)) = IF ChunksFor(id) = {} THEN 0 ELSE 1
        /\ \A i \in DOMAIN FinalToolCalls :
              FinalToolCalls[i].arguments = ArgumentsFor(FinalToolCalls[i].id, received)

\* the tokens the loop hands to run_manager for the chunks, in order
ExpectedTokens(chunks) ==
    IF run_manager THEN [i \in DOMAIN chunks |-> ContentOf(chunks[i])] ELSE <<>>

\* C14: the first chunk that reports a failure ends the stream with an
\* error: it is the last chunk read, none of its tokens is emitted, no
\* message or result is returned, and the tokens of the chunks before it
\* have been emitted.
C14_ErrorChunkAborts ==
    \A i \in DOMAIN received :
        received[i].is_error =>
            /\ i = Len(received)
            /\ pc = "Failed"
            /\ error.kind \in {"ValueError", "Exception"}
            /\ result = <<>>
            /\ emitted = ExpectedTokens(SubSeq(received, 1, i - 1))

C14_Witness ==
    /\ pc = "Failed"
    /\ Len(received) = 3
    /\ received[3].is_error
    /\ emitted = << "Hel", "lo" >>

TerminalUsage == received # <<>> /\ "usage" \in DOMAIN received[Len(received)].msg

\* C16 (as stated): a completed streaming call returns exactly one
\* generation and, when the last chunk carries a usage record, that record
\* as the usage of the result.
C16_StreamUsageReturned ==
    pc = "Completed" =>
        /\ Len(result) = 1 /\ Len(result[1].generations) = 1
        /\ TerminalUsage =>
              /\ "token_usage" \in DOMAIN result[1].llm_output
              /\ result[1].llm_output["token_usage"] = received[Len(received)].msg["usage"]

\* C16 (amended): a completed streaming call returns exactly one generation
\* and no usage at all, whatever the chunks carried.
C16_StreamResultHasNoUsage ==
    pc = "Completed" =>
        /\ Len(result) = 1 /\ Len(result[1].generations) = 1
        /\ result[1].llm_output = EmptyDict

C16_Witness ==
    /\ pc = "Completed"
    /\ TerminalUsage
    /\ Len(result[1].generations) = 1
    /\ result[1].llm_output = EmptyDict

----------------------------------------------------------------------------
(* The token accountant: _get_encoding_model, get_token_ids,                *)
(* get_num_tokens_from_messages                                             *)

\* tiktoken.encoding_for_model: the model names it knows and their encodings;
\* any other name raises KeyError
TiktokenModels == ("gpt-4" :> "cl100k_base") @@ ("text-davinci-003" :> "p50k_base")

DefaultEncoding == "cl100k_base"

TokenModelNames == {"qwen-turbo", "chatglm-std", "gpt-4"}
TokenOverrides  == {NoneVal, "text-davinci-003", "chatglm-lite"}
Texts == {"", "hi", "hello world"}

\* encoding.encode(text): the token ids of a text
Encode(encoding, text) ==
    CASE text = "" -> <<>>
      [] text = "hi" -> IF encoding = "p50k_base" THEN <<5303>> ELSE <<6151>>
      [] text = "hello world" ->
            IF encoding = "p50k_base" THEN <<31373, 995>> ELSE <<15339, 1917>>
      [] OTHER -> IF encoding = "p50k_base" THEN <<1>> ELSE <<0>>

\* mutant: the caller's override is ignored
_get_encoding_model_Mut ==
    IF model_name \in DOMAIN TiktokenModels
    THEN [model |-> model_name, encoding |-> TiktokenModels[model_name], warned |-> FALSE]
    ELSE [model |-> DefaultEncoding, encoding |-> DefaultEncoding, warned |-> TRUE]

\* _get_encoding_model: the (model, encoding) pair it returns and whether it
\* logged the warning; the fallback renames `model` to the default encoding
_get_encoding_model ==
    LET model == IF tiktoken_model_name # NoneVal THEN tiktoken_model_name ELSE model_name IN
    IF model \in DOMAIN TiktokenModels
    THEN [model |-> model, encoding |-> TiktokenModels[model], warned |-> FALSE]
    ELSE [model |-> DefaultEncoding, encoding |-> DefaultEncoding, warned |-> TRUE]

\* the values of a wire message that are not text: encode() rejects them
IsText(key, value) == key \notin {"function_call", "tool_calls"} /\ value # NoneVal

\* the inner loop `for key, value in message.items()`
RECURSIVE FieldTokens(_, _, _, _)
FieldTokens(encoding, message, keys, tokens_per_name) ==
    IF keys = {} THEN 0
    ELSE LET key == CHOOSE k \in keys : TRUE IN
         Len(Encode(encoding, message[key]))
         + (IF key = "name" THEN tokens_per_name ELSE 0)
         + FieldTokens(encoding, message, keys \ {key}, tokens_per_name)

\* the outer loop `for message in messages_dict`
RECURSIVE MessagesTokens(_, _, _, _)
MessagesTokens(encoding, messages_dict, tokens_per_message, tokens_per_name) ==
    IF messages_dict = <<>> THEN 0
    ELSE tokens_per_message
         + FieldTokens(encoding, Head(messages_dict), DOMAIN Head(messages_dict),
                       tokens_per_name)
         + MessagesTokens(encoding, Tail(messages_dict), tokens_per_message,
                          tokens_per_name)

\* get_num_tokens_from_messages
get_num_tokens_from_messages(msgs) ==
    LET em == _get_encoding_model IN
    IF ~StartsWith(em.model, "chatglm")
    THEN Fails(Raise("NotImplementedError", "not presently implemented for model "
                                             \o em.model), NoneVal)
    ELSE LET converted == ConvertAll(msgs) IN
         IF ~converted.ok THEN Fails(converted.err, NoneVal)
         ELSE IF \E i \in DOMAIN converted.val : \E k \in DOMAIN converted.val[i] :
                    ~IsText(k, converted.val[i][k])
         THEN Fails(Raise("TypeError", "expected string or buffer"), NoneVal)
         ELSE Ok(MessagesTokens(em.encoding, converted.val, 4, -1) + 3)

\* get_token_ids(text)
GetTokenIds ==
    /\ t_pc = "ready"
    /\ LET em == _get_encoding_model IN
         /\ t_out' = Ok(Encode(em.encoding, t_text))
         /\ warnings' = warnings + (IF em.warned THEN 1 ELSE 0)
    /\ t_pc' = "ids"
    /\ UNCHANGED <<t_text, cfgvars, headers, callvars, convvars, streamvars, sidevars>>

\* get_num_tokens_from_messages(messages)
GetNumTokensFromMessages ==
    /\ t_pc = "ready"
    /\ t_out' = get_num_tokens_from_messages(messages)
    /\ warnings' = warnings + (IF _get_encoding_model.warned THEN 1 ELSE 0)
    /\ t_pc' = "count"
    /\ UNCHANGED <<t_text, cfgvars, headers, callvars, convvars, streamvars, sidevars>>

TokenInit ==
    /\ use_dashscope_sdk = FALSE
    /\ max_retries = 3
    /\ model_name \in TokenModelNames
    /\ model_kwargs = EmptyDict
    /\ headers = ClientHeaders("sk-1")
    /\ tiktoken_model_name \in TokenOverrides
    /\ streaming = FALSE
    /\ run_manager = FALSE
    /\ StreamIdle
    /\ SideOff
    /\ CallInit
    /\ messages \in Conversations
    /\ remote = NoOutcome
    /\ c_pc = "off" /\ c_msg = HumanMessage("", NoKwargs) /\ c_wire = Pending /\ c_back = Pending
    /\ t_pc = "ready"
    /\ t_text \in Texts
    /\ t_out = Pending
    /\ warnings = 0

TokenNext == GetTokenIds \/ GetNumTokensFromMessages

TokenSpec == TokenInit /\ [][TokenNext]_vars

\* the name the tokenizer is looked up by
TokenizerName == IF tiktoken_model_name # NoneVal THEN tiktoken_model_name ELSE model_name

\* C17: for a model whose name starts with "chatglm", counting the tokens of
\* a message list returns 3 plus, for each message, 4 plus the token counts
\* of its wire fields, less 1 for a name field; the empty list gives 3.
C17_ChatglmMessageTokens ==
    (t_pc = "count" /\ StartsWith(TokenizerName, "chatglm") /\ ConvertAll(messages).ok) =>
        /\ t_out.ok
        /\ t_out.val = 3 + MessagesTokens(DefaultEncoding, ConvertAll(messages).val, 4, -1)

\* C18: the tokenizer is the one of the caller's override when it is set and
\* the one of the generation model name otherwise; for a name tiktoken does
\* not know, the default encoding is used, one warning is logged, and
\* get_token_ids returns the token ids without an error.
C18_TokenizerSelection ==
    t_pc = "ids" =>
        LET known == TokenizerName \in DOMAIN TiktokenModels
            encoding == IF known THEN TiktokenModels[TokenizerName] ELSE DefaultEncoding
        IN /\ t_out.ok
           /\ t_out.val = Encode(encoding, t_text)
           /\ warnings = IF known THEN 0 ELSE 1

C18_Witness ==
    /\ t_pc = "ids"
    /\ model_name = "gpt-4"
    /\ tiktoken_model_name = "chatglm-lite"
    /\ t_text = "hello world"
    /\ warnings = 1
    /\ t_out = Ok(<<15339, 1917>>)

----------------------------------------------------------------------------
(* Properties across the transport modes and the calls of one instance *)

\* C19: for a synchronous generate call, SDK mode gives the outcome raw-HTTP
\* mode gives for the same conversation, configuration and answers of the
\* service: when the service answers the first request with a JSON body, the
\* call ends after one transport invocation with the result, or the error,
\* raw-HTTP mode derives from that body.
C19_ModesEquivalent ==
    (Terminal /\ use_dashscope_sdk /\ ConvertAll(messages).ok /\ ~Answer.raises
        /\ _build_input_parameters(model_name, <<>>, _client_params).ok) =>
        LET raw == RawResult(Answer.json) IN
        /\ invocations = 1
        /\ (pc = "Succeeded") = raw.ok
        /\ raw.ok => result = <<raw.val>>
        /\ ~raw.ok => error = raw.err

----------------------------------------------------------------------------
(* Termination (FairSpec) *)

Done == pc \in {"Succeeded", "Failed", "Completed"}

\* C21: a call over a service that never answers still terminates, and by
\* the configured request timeout: once an attempt is on the wire, the call
\* ends as failed with the timeout failure of request_timeout (after the
\* retries of the synchronous path, at once on the streaming path).
C21_SilentServiceTimesOut ==
    (~answers /\ request_timeout # NoneVal /\ invocations > 0)
        ~> (Done /\ error = Raise("Timeout", request_timeout))

\* the moves of pc within one call; Sleeping is the wait between two attempts
\* of the Requesting phase
PcMoves ==
    { <<"Idle", "Requesting">>, <<"Idle", "Failed">>,
      <<"Requesting", "Sleeping">>, <<"Sleeping", "Requesting">>,
      <<"Requesting", "Succeeded">>, <<"Requesting", "Failed">>,
      <<"Idle", "Streaming">>, <<"Streaming", "Completed">>, <<"Streaming", "Failed">> }

\* C23: a call over a service that answers every attempt ends in a terminal
\* state (Succeeded or Failed for a synchronous call, Completed or Failed for
\* a streaming call) and stays there; pc moves only along Idle -> Requesting
\* -> Succeeded | Failed and Idle -> Streaming -> Completed | Failed, and
\* every chunk is read in Streaming and leaves the call in Streaming unless it
\* fails it.
C23_CallsTerminate ==
    /\ answers ~> Done
    /\ [][pc' # pc => <<pc, pc'>> \in PcMoves]_vars
    /\ [][received' # received =>
             /\ pc = "Streaming"
             /\ Len(received') = Len(received) + 1
             /\ pc' \in {"Streaming", "Failed"}]_vars

C23_Witness ==
    /\ answers
    /\ pc = "Succeeded"
    /\ Len(sleeps) >= 2
    /\ invocations = 3

----------------------------------------------------------------------------
(* Failure propagation in the asynchronous non-streaming call (AsyncSpec) *)

\* the texts that carry the remote detail of a failure body
RemoteDetail(body) ==
    { body["message"],
      "Error: " \o body["code"] \o ", " \o body["message"],
      body["code"] \o ": " \o body["message"] }

\* C22: a response the transport flags as an error, other than the
\* content-inspection rejection, makes the asynchronous non-streaming call
\* fail with an error that carries the remote code and message; it is never
\* turned into a result.
C22_AsyncErrorPropagates ==
    (Terminal /\ received # <<>> /\ received[1].is_error
        /\ received[1].msg["code"] # REJECTED /\ "message" \in DOMAIN received[1].msg) =>
        /\ pc = "Failed"
        /\ result = <<>>
        /\ error.text \in RemoteDetail(received[1].msg)

----------------------------------------------------------------------------
(* Further properties of the streaming paths (StreamSpec) *)

\* the role after the chunks, starting from `role`: the one of the latest
\* success chunk that carries a role
RECURSIVE RoleAfter(_, _)
RoleAfter(role, chunks) ==
    IF chunks = <<>> THEN role
    ELSE LET c == Head(chunks) IN
         RoleAfter(IF ~c.is_error /\ "role" \in DOMAIN ChunkMessage(c)
                   THEN ChunkMessage(c)["role"] ELSE role,
                   Tail(chunks))

\* the wire role of a message
RoleOfMessage(m) ==
    CASE m.type = "human" -> "user"
      [] m.type = "ai" -> "assistant"
      [] m.type = "system" -> "system"
      [] m.type = "function" -> "function"
      [] m.type = "tool" -> "tool"
      [] OTHER -> m.role

\* C24: the current role of a streaming call starts as assistant and is,
\* after every chunk, the role of the latest success chunk that carried one;
\* the final message has that role.
C24_RoleCarriedForward ==
    /\ cur_role = RoleAfter("assistant", received)
    /\ pc = "Completed" => RoleOfMessage(FinalMessage) = cur_role

C24_Witness ==
    /\ pc = "Completed"
    /\ Len(received) = 3
    /\ "role" \in DOMAIN ChunkMessage(received[1]) /\ ChunkMessage(received[1])["role"] = "assistant"
    /\ "role" \in DOMAIN ChunkMessage(received[2]) /\ ChunkMessage(received[2])["role"] = "user"
    /\ "role" \notin DOMAIN ChunkMessage(received[3])
    /\ cur_role = "user"
    /\ FinalMessage.type = "human"

SuccessChunks == SelectSeq(received, LAMBDA c : ~c.is_error)

RECURSIVE JoinTokens(_)
JoinTokens(tokens) ==
    IF tokens = <<>> THEN "" ELSE Head(tokens) \o JoinTokens(Tail(tokens))

\* C26: at every point of a streaming call with a consumer, the tokens
\* emitted so far are the content tokens of the success chunks received so
\* far, one per chunk and in arrival order (an absent token as the empty
\* one), and their concatenation is the content buffer.
C26_EmittedTokensAreChunkTokens ==
    run_manager =>
        /\ emitted = [i \in DOMAIN SuccessChunks |-> ContentOf(SuccessChunks[i])]
        /\ JoinTokens(emitted) = inner_completion

C26_Witness ==
    /\ pc = "Streaming"
    /\ run_manager
    /\ Len(received) = 3
    /\ emitted = << "Hel", "", "lo" >>
    /\ inner_completion = "Hello"

\* the loop variables of _agenerate after the chunks
RECURSIVE AsyncFold(_, _)
AsyncFold(st, chunks) ==
    IF chunks = <<>> THEN st
    ELSE AsyncFold(AsyncChunkStep(st, Head(chunks)).val, Tail(chunks))

\* C27: for the same success chunks the SDK streaming call returns what the
\* asynchronous streaming call returns: a finished SDK streaming call has
\* completed with the message _agenerate assembles from the chunks it read.
C27_SdkStreamLikeAsyncStream ==
    (use_dashscope_sdk /\ streaming /\ Done /\ ConvertAll(messages).ok
        /\ \A i \in DOMAIN received : ~received[i].is_error) =>
        /\ pc = "Completed"
        /\ result = << AsyncFinal(AsyncFold(StreamState("", "assistant", <<>>, emitted),
                                            received)).val >>

----------------------------------------------------------------------------
(* The request of the raw-HTTP call *)

\* C25: model-specific fields are keyed by model-name prefix: enable_search
\* is in the request parameters exactly for a "qwen" model given a true
\* enable_search, customized_model_id is in the request input exactly for a
\* "bailian" model, and a "bailian" model without the id fails the build.
C25_FieldsKeyedByPrefix ==
    b_pc = "built" =>
        LET qwen == StartsWith(model_name, "qwen")
            bailian == StartsWith(model_name, "bailian")
            has_id == "customized_model_id" \in DOMAIN b_kwargs
        IN /\ b_out.ok = ~(bailian /\ ~has_id)
           /\ b_out.ok =>
                 /\ "enable_search" \in DOMAIN b_out.val.parameters
                       <=> (qwen /\ Truthy(Get(b_kwargs, "enable_search", "False")))
                 /\ "customized_model_id" \in DOMAIN b_out.val.input <=> bailian

\* C29: every attempt of one raw-HTTP generate call posts the body of the
\* first attempt, built from the wire messages of the caller's conversation,
\* and those wire messages are still what the conversation converts to.
C29_SameRequestEveryAttempt ==
    (~use_dashscope_sdk /\ sent # <<>>) =>
        /\ \A i \in DOMAIN sent : sent[i] = sent[1]
        /\ sent[1].input["messages"] = message_dicts
        /\ sent[1].model = model_name
        /\ message_dicts = ConvertAll(messages).val

C29_Witness ==
    /\ ~use_dashscope_sdk
    /\ pc = "Failed"
    /\ Len(sent) = 3
    /\ Len(message_dicts) = 2

\* C30: in SDK mode no keyword reaches Generation.call twice, so a generate
\* call whose conversation converts reaches the transport.
C30_SdkKeywordsGivenOnce ==
    use_dashscope_sdk =>
        /\ DuplicateKeywords(SdkParameters(_client_params)) = {}
        /\ (Terminal /\ ConvertAll(messages).ok) => invocations = 1

----------------------------------------------------------------------------
(* Credentials of several instances (KeySpec) *)

\* C28: every SDK-mode instance calls with its own key: the credential the
\* SDK reads for a call, dashscope.api_key, is the key the instance was
\* constructed with, whatever other instances were constructed since.
C28_InstanceUsesOwnKey ==
    \A i \in DOMAIN instances :
        instances[i].use_dashscope_sdk => dashscope_api_key = instances[i].dashscope_api_key

====
